---- MODULE Spec2Model ----
(***************************************************************************)
(* Orchestration core of the document-to-video service:                    *)
(*   - backend/app/workers/background_tasks.py  (pipeline worker, handoff) *)
(*   - backend/app/routers/generation.py        (start / status / cancel)  *)
(*   - backend/app/core/gemini_client.py        (rate-limited client)      *)
(*                                                                         *)
(* Execution contexts.  The request handlers (status poll, cancel, start)  *)
(* run on the server's event loop; every dispatched job runs               *)
(* VideoGenerationTask.generate_video on a private event loop inside its   *)
(* own daemon thread (run_video_generation_in_thread).  generate_video     *)
(* never suspends: every coroutine it awaits runs blocking code and        *)
(* awaits nothing that yields to the loop.  update_video_progress_sync is  *)
(* called from inside that running loop, so it takes the                   *)
(* asyncio.ensure_future(_update()) branch: the database write is only     *)
(* queued on the worker's loop.  The queued _update coroutines run, in     *)
(* FIFO order, once generate_video has returned; whatever the loop has not *)
(* finished when it is closed (loop.close() in _generate) is discarded.    *)
(***************************************************************************)
EXTENDS Integers, Sequences, FiniteSets, TLC

\* ------------------------------------------------------------------------
\* Jobs, stages and values
\* ------------------------------------------------------------------------

Jobs == {1, 2}

\* At most MaxFaults stage bodies hit an error within one job run.
MaxFaults == 1

total_steps == 10

Stages == 1..total_steps

\* Stage 1 (Extraction) makes no external call and always yields the combined
\* text: a source that cannot be read is skipped inside its loop.
\* Stages whose body catches its own exception and returns a fallback value.
SwallowingStages == {2, 3, 4, 6, 7}

\* VisualDescription re-raising its exception like the stages around it.
RaisingStages_WithVisualDescription == {5, 7, 8, 9, 10}

\* Stages whose exception reaches the except handler of generate_video.
RaisingStages == {5, 8, 9, 10}

\* Stages that call the generative service (genai.GenerativeModel).
GenerativeStages == {2, 3, 4, 6, 7}

\* The only best-effort stage of the specification (VisualDescription).
BestEffortStage == 7

None == "None"

\* The absent row / absent handoff entry (Video.get_or_none and
\* _completed_videos.get return None).
NoVideo == [exists |-> FALSE]

NoEntry == [exists |-> FALSE]

\* str(e) of the exception that stage k lets escape to generate_video.
ErrorText(k) ==
    CASE k = 5 -> "No audio generated"
      [] k = 8 -> "frame generation error"
      [] k = 9 -> "FFmpeg error: timeout"
      [] k = 10 -> "metadata write error"
      [] OTHER -> "error"

\* os.path.join(f"storage/outputs/video_{video_id}", "video.mp4")
OutputPath(j) ==
    IF j = 1 THEN "storage/outputs/video_1/video.mp4"
    ELSE "storage/outputs/video_2/video.mp4"

\* A NULL integer / float column is written 0.
NullNumber == 0

\* os.path.getsize(output_path) of a compiled video (a positive size).
FileSize == 1

\* (now - start_time).total_seconds()
GenerationTime == 1

\* actual_duration = int(audio_duration), the measured length of the narration.
ActualDuration == 60

\* quality_score is 0.95 in the code; kept as hundredths.
QualityScore == 95

DefaultQualityScore == 0

CompletedAt == "completed_at"

\* No pipeline stage has called the generative service yet.
NoCall == [job |-> 0, time |-> 0]

\* Contexts that call GeminiClient.generate / generate_json.
Callers == {1, 2}

\* Up to MaxContexts threads call get_gemini_client.
MaxContexts == 3

\* The threads of the process: the one that serves the requests and the one
\* started for each job.
Contexts == 1..MaxContexts

\* RateLimits.REQUEST_INTERVAL = 4.0 seconds (60 / RPM_LIMIT).
REQUEST_INTERVAL == 4

RPM_LIMIT == 15

\* time.time() when the process starts, in seconds; the real clock is far
\* beyond one interval after the epoch.
Epoch == 5

\* The clock is followed for MaxTime seconds.
MaxTime == 12

\* At most MaxCalls calls enter the client.
MaxCalls == 3

\* At most MaxThreadCalls calls enter the client from threads of their own,
\* and they are followed for MaxThreadTime seconds.
MaxThreadCalls == 2

MaxThreadTime == 5

\* Narrations of up to MaxDuration seconds are measured.
MaxDuration == 650

\* At most MaxLines non-empty lines come back from the concept prompt.
MaxLines == 7

\* num_concepts before get_num_concepts has been called; likewise every other
\* number a later stage has not computed yet.
NotComputed == -1

\* settings.VIDEO_FPS
FPS == 30

\* The parameters of a Python float (IEEE 754 binary64): radix and precision.
FloatRadix == 2

FloatPrecision == 53

\* The lower limit of get_frames_per_concept.
MinFramesPerConcept == 15

\* The answer to the concept prompt before the prompt has been sent.
NoAnswer == [outcome |-> "none", lines |-> 0]

\* No earlier run has been sized.
NoRun == [exists |-> FALSE]

\* RateLimits.DAILY_TOKEN_LIMIT
DAILY_TOKEN_LIMIT == 1000000

\* The level above which generate logs "Approaching daily limit".
TOKEN_WARNING_LEVEL == 800000

\* prompt_token_count + candidates_token_count of one response; 0 also stands
\* for a response without usage_metadata.
TokenUsage == {0, 450000, 600000}

\* _gemini_client is None: get_gemini_client has not been called yet.
NoClient == "no client"

\* No call of the caller has returned yet.
NoResult == [method |-> "none"]

\* The two entry points of the client.
Methods == {"generate", "generate_json"}

\* What happens to a call once the rate limit has released it:
\*   "uninitialised" - self.client is None, the service is not called
\*   "ok"            - the service answers in time
\*   "timeout"       - asyncio.wait_for raises asyncio.TimeoutError
\*   "error"         - the request raises another exception
\*   "unparsable"    - json.loads(response.text) raises json.JSONDecodeError
CallOutcomes == {"uninitialised", "ok", "timeout", "error", "unparsable"}

VARIABLES
    videos,             \* job id -> persisted Video row, or NoVideo
    completed_videos,   \* _completed_videos: job id -> handoff entry, or NoEntry
    worker,             \* job id -> state of the worker thread
    step,               \* job id -> `step` of generate_video (last stage begun)
    stage_result,       \* job id -> stage -> "none" | "ok" | "error"
    raised,             \* job id -> stage whose exception reached the handler, 0 if none
    frames_dir,         \* job id -> TRUE once os.makedirs(frames_dir) has run
    visual_desc,        \* job id -> visual_desc["descriptions"] of generate_video
    files,              \* job id -> the artifacts present under the job's video_dir
    ffmpeg_runs,        \* job id -> result1, result2 of _compile_video, as far as it got
    pending_updates,    \* job id -> queue of _update coroutines on the worker's loop
    poll_pc,            \* job id -> position of the in-flight status poll
    poll_completed,     \* job id -> `completed`, the entry read by the in-flight poll
    poll_video,         \* job id -> `video`, the object held by the in-flight poll
    status_response,    \* job id -> last response of get_generation_status
    seen_progress,      \* job id -> highest progress returned with a non-terminal status
    cancel_response,    \* job id -> last response of cancel_generation
    start_request,      \* the request last received by start_generation
    start_response,     \* the response start_generation gave to it
    cleanup,            \* cleanup_pending_tasks: the rows it still has to delete, and the
                        \*   ids of the rows it has deleted
    actual_duration,    \* int(audio_duration), the argument of get_num_concepts
    num_concepts,       \* the value get_num_concepts returned for it
    target_duration,    \* `duration` of generate_video, the length the request asked for
    concept_answer,     \* what model.generate_content gave _extract_visual_concepts
    concepts,           \* `concepts`, the list step 6 hands to step 8
    frames_per_concept, \* `frames_per_concept` of _generate_visual_frames_with_animations
    frame_count,        \* `frame_count` of it: the frames written, numbered from 0
    crf,                \* `crf` of _compile_video
    previous_run,       \* the sizes of the run made before this one (history)
    entry_polled,       \* job id -> TRUE once a poll that found the job's handoff
                        \*           entry has returned (history)
    last_generative_call, \* most recent genai call made by a pipeline stage
    now,                \* the clock read by time.time(), in seconds
    last_request_time,  \* GeminiClient.last_request_time
    request_count,      \* GeminiClient.request_count
    call_pc,            \* caller -> position inside generate / generate_json
    wake_at,            \* caller -> time at which its asyncio.sleep ends
    entered_at,         \* caller -> time at which its current call entered
    releases,           \* calls released by _enforce_rate_limit, in order
    gemini_client,      \* _gemini_client: the singleton and the state of its self.client
    daily_token_count,  \* GeminiClient.daily_token_count
    token_warnings,     \* number of "Approaching daily limit" warnings logged
    service_calls,      \* number of generate_content requests sent to the service
    call_result,        \* caller -> how its last generate / generate_json call ended
    response_usage,     \* tokens reported by usage_metadata of the last response received
    client_instances,   \* number of GeminiClient objects constructed; _gemini_client is
                        \*   the one constructed last
    context_pc,         \* thread -> its position inside get_gemini_client
    context_client,     \* thread -> the instance get_gemini_client returned to it, 0 if none
    stamp,              \* caller -> the value time.time() returned to it on line 56
    loaded_count        \* caller -> self.request_count as read by its `+= 1` on line 57

vars == <<videos, completed_videos, worker, step, stage_result, raised, frames_dir, visual_desc,
          files, ffmpeg_runs,
          pending_updates, poll_pc, poll_completed, poll_video, status_response,
          seen_progress, cancel_response, start_request, start_response, cleanup,
          actual_duration, num_concepts, target_duration, concept_answer, concepts,
          frames_per_concept, frame_count, crf, previous_run,
          entry_polled, last_generative_call,
          now, last_request_time, request_count, call_pc, wake_at, entered_at, releases,
          gemini_client, daily_token_count, token_warnings, service_calls, call_result,
          response_usage, client_instances, context_pc, context_client, stamp,
          loaded_count>>

\* The values a thread holds between the statements of lines 56 and 57.
registerVars == <<stamp, loaded_count>>

\* get_gemini_client as the threads of the process run it.
singletonVars == <<client_instances, context_pc, context_client>>

\* What a call touches after _enforce_rate_limit has released it.
callVars == <<gemini_client, daily_token_count, token_warnings, service_calls, call_result,
              response_usage, singletonVars, registerVars>>

clientVars == <<last_request_time, request_count, call_pc, wake_at, entered_at, releases,
                callVars>>

\* The job's output directory and the subprocesses that wrote into it.
diskVars == <<files, ffmpeg_runs>>

workerVars == <<worker, step, stage_result, raised, frames_dir, visual_desc, diskVars,
                pending_updates>>

intakeVars == <<start_request, start_response, cleanup>>

\* What steps 6, 8 and 9 compute from the measured narration, and their inputs.
sizingVars == <<target_duration, concept_answer, concepts, frames_per_concept, frame_count,
                crf, previous_run>>

conceptVars == <<actual_duration, num_concepts, sizingVars>>

pollVars == <<poll_pc, poll_completed, poll_video, status_response, seen_progress,
              entry_polled>>

jobVars == <<videos, completed_videos, workerVars, pollVars, cancel_response, intakeVars,
             last_generative_call>>

\* ------------------------------------------------------------------------
\* Persisted record (app/models/models.py, class Video)
\* ------------------------------------------------------------------------

NewVideo ==
    [exists |-> TRUE, status |-> "pending", progress |-> 0, error_message |-> None,
     output_path |-> None, file_size |-> NullNumber, generation_time |-> NullNumber,
     quality_score |-> DefaultQualityScore, completed_at |-> None]

\* No response returned yet.
NoResponse == [code |-> 0]

\* An error response with status code c.
HttpError(c) == [code |-> c]

\* No request received yet.
NoRequest == [channel_id |-> None, duration |-> 0, source_ids |-> <<>>]

\* The channels of channel_categories.yaml, as listed for the channel_id field.
KnownChannels ==
    {"research_papers", "space_exploration", "brainrot_grandfather",
     "brainrot_stories", "kids_brainrot"}

\* The ids of the rows of the Source table.
ExistingSources == {1, 2}

\* The example request of VideoGenerationRequest.
ExampleRequest ==
    [channel_id |-> "research_papers", duration |-> 60, source_ids |-> <<1>>]

\* The requests sent to start_generation in SpecIntake.
Requests ==
    [channel_id : {"research_papers", "podcasts"},
     duration : {29, 45, 60, 600, 601},
     source_ids : {<<>>, <<1>>, <<1, 2>>, <<3>>, <<1, 3>>, <<1, 1>>}]

TerminalStatus == {"completed", "failed"}

\* A cancel check that lets a failed job through.
ActiveStatus_WithFailed == {"pending", "processing", "failed"}

ActiveStatus == {"pending", "processing"}

\* ------------------------------------------------------------------------
\* update_video_progress_sync
\* ------------------------------------------------------------------------

\* A progress computed from the steps that remain instead of the steps done.
Progress_Remaining(s) == ((total_steps - s) * 100) \div total_steps

\* progress = int((step / total_steps) * 100)
Progress(s) == (s * 100) \div total_steps

\* The arguments captured by one _update coroutine.
Update(s, st, kw) == [step |-> s, status |-> st, kwargs |-> kw]

NoKwargs == [k \in {} |-> None]

\* for key, value in kwargs.items(): if hasattr(video, key): setattr(...)
ApplyKwargs(v, kw) ==
    [f \in DOMAIN v |-> IF f \in DOMAIN kw THEN kw[f] ELSE v[f]]

\* An update that saves progress and status and leaves the keyword arguments
\* to a later write.
ApplyUpdate_StatusOnly(v, u) ==
    [v EXCEPT !.progress = Progress(u.step), !.status = u.status]

\* Body of _update on an existing row: progress, status, kwargs, save().
ApplyUpdate(v, u) ==
    ApplyKwargs([v EXCEPT !.progress = Progress(u.step), !.status = u.status],
                u.kwargs)

\* update_video_progress_sync called inside the running loop of the worker:
\* asyncio.ensure_future(_update()) appends the coroutine to the loop's queue.
update_video_progress_sync(q, s, st, kw) == Append(q, Update(s, st, kw))

\* ------------------------------------------------------------------------
\* Initial state: no job record, no worker, empty handoff store
\* ------------------------------------------------------------------------

InitJobs ==
    /\ videos = [j \in Jobs |-> NoVideo]
    /\ completed_videos = [j \in Jobs |-> NoEntry]
    /\ worker = [j \in Jobs |-> "not_started"]
    /\ step = [j \in Jobs |-> 0]
    /\ stage_result = [j \in Jobs |-> [k \in Stages |-> "none"]]
    /\ raised = [j \in Jobs |-> 0]
    /\ frames_dir = [j \in Jobs |-> FALSE]
    /\ visual_desc = [j \in Jobs |-> None]
    /\ files = [j \in Jobs |-> {}]
    /\ ffmpeg_runs = [j \in Jobs |-> <<>>]
    /\ pending_updates = [j \in Jobs |-> <<>>]
    /\ poll_pc = [j \in Jobs |-> "idle"]
    /\ poll_completed = [j \in Jobs |-> NoEntry]
    /\ poll_video = [j \in Jobs |-> NoVideo]
    /\ status_response = [j \in Jobs |-> NoResponse]
    /\ seen_progress = [j \in Jobs |-> 0]
    /\ cancel_response = [j \in Jobs |-> NoResponse]
    /\ start_request = NoRequest
    /\ start_response = NoResponse
    /\ cleanup = [targets |-> {}, deleted |-> {}]
    /\ entry_polled = [j \in Jobs |-> FALSE]
    /\ last_generative_call = NoCall
    /\ now = Epoch
    /\ last_request_time = 0
    /\ request_count = 0
    /\ call_pc = [c \in Callers |-> "idle"]
    /\ wake_at = [c \in Callers |-> 0]
    /\ entered_at = [c \in Callers |-> 0]
    /\ releases = <<>>
    /\ gemini_client = NoClient
    /\ client_instances = 0
    /\ context_pc = [c \in Contexts |-> "idle"]
    /\ context_client = [c \in Contexts |-> 0]
    /\ stamp = [c \in Callers |-> 0]
    /\ loaded_count = [c \in Callers |-> 0]
    /\ daily_token_count = 0
    /\ token_warnings = 0
    /\ service_calls = 0
    /\ call_result = [c \in Callers |-> NoResult]
    /\ response_usage = 0
    /\ concept_answer = NoAnswer
    /\ concepts = <<>>
    /\ frames_per_concept = NotComputed
    /\ frame_count = NotComputed
    /\ crf = NotComputed
    /\ previous_run = NoRun

\* No narration has been measured: the pipelines take the length of their
\* narration as ActualDuration.
Init ==
    /\ InitJobs
    /\ actual_duration = ActualDuration
    /\ num_concepts = NotComputed
    /\ target_duration = ExampleRequest.duration

\* ------------------------------------------------------------------------
\* VideoConfig.get_num_concepts
\* ------------------------------------------------------------------------

\* if duration <= 60: 5; elif duration <= 180: int(duration / 30);
\* else: int(duration / 45)
get_num_concepts(duration) ==
    IF duration <= 60 THEN 5
    ELSE IF duration <= 180 THEN duration \div 30
    ELSE duration \div 45

\* Any measured narration length of 0..MaxDuration seconds.
InitConcepts ==
    /\ InitJobs
    /\ actual_duration \in 0..MaxDuration
    /\ num_concepts = NotComputed
    /\ target_duration = ExampleRequest.duration

\* Steps sized from the length the request asked for.
SizingDuration_Requested(target, actual) == target

\* The duration steps 6, 8 and 9 are given: actual_duration, never the
\* `duration` argument of generate_video.
SizingDuration(target, actual) == actual

\* num_concepts = self.config.get_num_concepts(actual_duration)
ComputeConcepts ==
    /\ num_concepts = NotComputed
    /\ num_concepts' = get_num_concepts(SizingDuration(target_duration, actual_duration))
    /\ UNCHANGED <<actual_duration, sizingVars, jobVars, now, clientVars>>

\* ------------------------------------------------------------------------
\* start_generation: validation, then the record, then mark_processing
\* ------------------------------------------------------------------------

\* Field(ge=30, le=600) of VideoGenerationRequest.duration: a request outside
\* it is answered 422 by the framework and never reaches the handler.
FieldDuration(d) == d >= 30 /\ d <= 600

\* A validate_duration that only checks the upper limit.
validate_duration_UpperOnly(d) == d <= 600

\* validate_duration: False below 60 and above 600.
validate_duration(d) == d >= 60 /\ d <= 600

\* sources = await Source.filter(id__in=request.source_ids)
SourcesFound(ids) == {ids[i] : i \in DOMAIN ids} \cap ExistingSources

\* The status code with which start_generation rejects request r, in the
\* order of its tests; 0 when every test passes.
Rejection(r) ==
    IF ~FieldDuration(r.duration) THEN 422
    ELSE IF r.channel_id \notin KnownChannels THEN 400
    ELSE IF ~validate_duration(r.duration) THEN 400
    ELSE IF r.source_ids = <<>> THEN 400
    ELSE IF Cardinality(SourcesFound(r.source_ids)) # Len(r.source_ids) THEN 404
    ELSE 0

\* A rejected request raises HTTPException before Video.create.  An accepted
\* one reaches Video.create(status=PENDING, progress=0); the following call
\* gen_service.mark_processing(video.id) names a method VideoGenerationService
\* does not define, so the handler answers 500 and never reaches
\* run_video_generation_in_thread.
start_generation(j, r) ==
    /\ videos[j] = NoVideo
    /\ j \notin cleanup.deleted
    /\ worker[j] = "not_started"
    /\ start_request' = r
    /\ IF Rejection(r) # 0
       THEN /\ start_response' = HttpError(Rejection(r))
            /\ UNCHANGED videos
       ELSE /\ start_response' = HttpError(500)
            /\ videos' = [videos EXCEPT ![j] = NewVideo]
    /\ UNCHANGED <<completed_videos, workerVars, pollVars, cancel_response, cleanup,
                   conceptVars, last_generative_call, now, clientVars>>

\* ------------------------------------------------------------------------
\* WorkerDispatcher: run_video_generation_in_thread
\* ------------------------------------------------------------------------

\* A dispatcher with one worker slot: the thread of job j is started only when
\* no other worker is running.
ThreadStart_OneSlot(w, j) ==
    IF \E i \in Jobs \ {j} : w[i] \in {"running", "raised"} THEN w
    ELSE [w EXCEPT ![j] = "running"]

\* thread = threading.Thread(target=_generate, daemon=True); thread.start():
\* a new thread per call, no pool, no semaphore, no join.
ThreadStart(w, j) == [w EXCEPT ![j] = "running"]

\* run_video_generation_in_thread for a created job: the thread is started and
\* the function returns.
run_video_generation_in_thread(j) ==
    /\ videos[j] # NoVideo
    /\ worker[j] = "not_started"
    /\ worker' = ThreadStart(worker, j)
    /\ UNCHANGED <<videos, completed_videos, step, stage_result, raised, frames_dir, visual_desc,
                   diskVars, pending_updates, pollVars, cancel_response, intakeVars, conceptVars,
                   last_generative_call, now, clientVars>>

\* ------------------------------------------------------------------------
\* PipelineOrchestrator: generate_video, one action per stage
\* ------------------------------------------------------------------------

\* What a stage can do when its body hits an error:
\*   "ok"    - the stage body ran without an exception
\*   "error" - an exception was raised inside the stage body
StageOutcomes == {"ok", "error"}

\* Number of stages of job j whose body has hit an error so far.
Faults(j) == Cardinality({k \in Stages : stage_result[j][k] = "error"})

\* An error can be injected into a stage while the run's fault budget lasts.
CanTake(j, k, o) ==
    o = "ok" \/ (k \in SwallowingStages \cup RaisingStages /\ Faults(j) < MaxFaults)

\* kwargs of the update that follows a successful stage k.
StageKwargs(j, k) ==
    IF k = 9 THEN [output_path |-> OutputPath(j), file_size |-> FileSize]
    ELSE NoKwargs

\* response.text.strip() of a generative call that succeeded.
ResponseText == "response text"

\* _generate_visual_descriptions: {"descriptions": response.text.strip()}, or
\* {"descriptions": ""} from its except branch.
VisualDescriptions(o) == IF o = "ok" THEN ResponseText ELSE ""

\* One output directory used by every job.
VideoDir_Shared(j) == CHOOSE d \in Jobs : \A e \in Jobs : d <= e

\* video_dir = f"storage/outputs/video_{video_id}": the directory of job j is
\* the one keyed by j.
VideoDir(j) == j

\* The files a stage other than 9 has written under video_dir when it ends.
\* Steps 3, 4 and 6 write what their helper returned, the helper's fallback
\* included; _generate_tts_audio and the frame loop write before they return
\* and raise otherwise; metadata.json is written by step 10.
StageFiles(k, o) ==
    IF k = 3 THEN {"script.txt"}
    ELSE IF k = 4 THEN {"narration.txt"}
    ELSE IF k = 5 /\ o = "ok" THEN {"narration.wav"}
    ELSE IF k = 6 THEN {"concepts.json"}
    ELSE IF k = 8 /\ o = "ok" THEN {"frames/frame_*.png"}
    ELSE IF k = 10 /\ o = "ok" THEN {"metadata.json"}
    ELSE {}

\* video_temp of _compile_video
VideoTemp == "video_no_audio.mp4"

\* output_path of _compile_video
VideoOutput == "video.mp4"

\* One ffmpeg subprocess: whether it returned 0, and whether it left its
\* output file behind (a run that returned 0 did; a failed one may have).
FfmpegResults == {r \in [ok : BOOLEAN, wrote : BOOLEAN] : r.ok => r.wrote}

\* The runs of one _compile_video call: encode and mux both returning 0 when
\* the stage succeeds; a failed encode, with or without a silent video left
\* behind, or an encode followed by a failed mux, when it raises. What a
\* failed mux left of output_path is not followed: no step reads or removes
\* it.
CompileRuns(o) ==
    IF o = "ok" THEN {<<[ok |-> TRUE, wrote |-> TRUE], [ok |-> TRUE, wrote |-> TRUE]>>}
    ELSE {<<r>> : r \in {x \in FfmpegResults : ~x.ok}}
         \cup {<<[ok |-> TRUE, wrote |-> TRUE], [ok |-> FALSE, wrote |-> FALSE]>>}

\* The ffmpeg runs stage k makes: those of _compile_video for stage 9, none
\* for any other stage.
StageRuns(k, o) == IF k = 9 THEN CompileRuns(o) ELSE {<<>>}

\* The runs of a stage as the specifications that do not look into the job's
\* directory take them: a Compilation that fails does so in the encode, which
\* leaves nothing behind.
UsualRuns(k, o) ==
    IF k = 9 /\ o = "error" THEN <<[ok |-> FALSE, wrote |-> FALSE]>>
    ELSE CHOOSE runs \in StageRuns(k, o) : TRUE

\* A compilation that removes the silent video as soon as it has been encoded.
compile_video_RemoveBeforeMux(f, runs) ==
    LET encoded == IF runs[1].wrote THEN f \cup {VideoTemp} ELSE f
        muxed == IF Len(runs) = 2 /\ runs[2].wrote THEN encoded \cup {VideoOutput} ELSE encoded
    IN  IF Len(runs) = 2 THEN muxed \ {VideoTemp} ELSE muxed

\* _compile_video: ffmpeg writes video_temp, a second ffmpeg writes
\* output_path, and only after both returned 0 os.remove(video_temp) runs.
compile_video(f, runs) ==
    LET encoded == IF runs[1].wrote THEN f \cup {VideoTemp} ELSE f
        muxed == IF Len(runs) = 2 /\ runs[2].wrote THEN encoded \cup {VideoOutput} ELSE encoded
    IN  IF Len(runs) = 2 /\ runs[2].ok THEN muxed \ {VideoTemp} ELSE muxed

\* Stages 1..9: step = k; update(k); run the stage; update(k).
\* An error inside a swallowing stage is caught in the stage itself, which
\* returns its fallback ([] / title / script / "Concept i" / empty text), so
\* generate_video continues exactly as after a success.  An error inside
\* stage 5, 8 or 9 is re-raised and leaves the try block.
RunStage(j, k, o, runs) ==
    /\ worker[j] = "running"
    /\ k = step[j] + 1
    /\ k \in 1..9
    /\ CanTake(j, k, o)
    /\ runs \in StageRuns(k, o)
    /\ step' = [step EXCEPT ![j] = k]
    /\ stage_result' = [stage_result EXCEPT ![j][k] = o]
    /\ frames_dir' = [frames_dir EXCEPT ![j] = @ \/ k = 8]
    /\ visual_desc' = [visual_desc EXCEPT ![j] =
           IF k = BestEffortStage THEN VisualDescriptions(o) ELSE @]
    /\ IF k = 9
       THEN /\ ffmpeg_runs' = [ffmpeg_runs EXCEPT ![j] = runs]
            /\ files' = [files EXCEPT ![VideoDir(j)] = compile_video(@, runs)]
       ELSE /\ files' = [files EXCEPT ![VideoDir(j)] = @ \cup StageFiles(k, o)]
            /\ UNCHANGED ffmpeg_runs
    /\ last_generative_call' =
           IF k \in GenerativeStages THEN [job |-> j, time |-> now]
           ELSE last_generative_call
    /\ IF o = "error" /\ k \in RaisingStages
       THEN /\ raised' = [raised EXCEPT ![j] = k]
            /\ worker' = [worker EXCEPT ![j] = "raised"]
            /\ pending_updates' = [pending_updates EXCEPT ![j] =
                   update_video_progress_sync(@, k, "processing", NoKwargs)]
       ELSE /\ UNCHANGED <<raised, worker>>
            /\ pending_updates' = [pending_updates EXCEPT ![j] =
                   update_video_progress_sync(
                       update_video_progress_sync(@, k, "processing", NoKwargs),
                       k, "processing", StageKwargs(j, k))]
    /\ UNCHANGED <<videos, completed_videos, pollVars, cancel_response, intakeVars, conceptVars, now, clientVars>>

\* Stage 10: update(10, processing); metadata.json is written; then
\* update(10, completed, ...), the completed handoff entry, return.
\* Writing the metadata file can raise (disk), which reaches the handler.
Finalize(j, o) ==
    /\ worker[j] = "running"
    /\ step[j] = 9
    /\ CanTake(j, 10, o)
    /\ step' = [step EXCEPT ![j] = 10]
    /\ stage_result' = [stage_result EXCEPT ![j][10] = o]
    /\ IF o = "error"
       THEN /\ raised' = [raised EXCEPT ![j] = 10]
            /\ worker' = [worker EXCEPT ![j] = "raised"]
            /\ pending_updates' = [pending_updates EXCEPT ![j] =
                   update_video_progress_sync(@, 10, "processing", NoKwargs)]
            /\ UNCHANGED completed_videos
       ELSE /\ UNCHANGED raised
            /\ worker' = [worker EXCEPT ![j] = "returned"]
            /\ pending_updates' = [pending_updates EXCEPT ![j] =
                   update_video_progress_sync(
                       update_video_progress_sync(@, 10, "processing", NoKwargs),
                       10, "completed",
                       [generation_time |-> GenerationTime,
                        quality_score |-> QualityScore,
                        completed_at |-> CompletedAt])]
            /\ completed_videos' = [completed_videos EXCEPT ![j] =
                   [exists |-> TRUE, status |-> "completed",
                    output_path |-> OutputPath(j),
                    file_size |-> FileSize,
                    duration |-> ActualDuration,
                    generation_time |-> GenerationTime,
                    completed_at |-> CompletedAt]]
    /\ files' = [files EXCEPT ![VideoDir(j)] = @ \cup StageFiles(10, o)]
    /\ UNCHANGED <<videos, frames_dir, visual_desc, ffmpeg_runs, pollVars, cancel_response,
                   intakeVars, conceptVars, last_generative_call, now, clientVars>>

\* A handler that leaves the handoff store as it is.
FailedEntry_NotWritten(text) == NoEntry

\* _completed_videos[video_id] = {"status": "failed", "error": str(e)}
FailedEntry(text) == [exists |-> TRUE, status |-> "failed", error |-> text]

\* A handler that clears the job's output directory.
HandlerFiles_Cleanup(f) == {}

\* The handler logs, queues the update and writes the handoff entry: no
\* statement of it removes or rewrites a file.
HandlerFiles(f) == f

\* except Exception as e: update(0, failed, error_message=str(e));
\* _completed_videos[video_id] = {"status": "failed", "error": str(e)}; return.
except_handler(j) ==
    /\ worker[j] = "raised"
    /\ pending_updates' = [pending_updates EXCEPT ![j] =
           update_video_progress_sync(@, 0, "failed",
               [error_message |-> ErrorText(raised[j])])]
    /\ completed_videos' = [completed_videos EXCEPT ![j] =
           FailedEntry(ErrorText(raised[j]))]
    /\ worker' = [worker EXCEPT ![j] = "returned"]
    /\ files' = [files EXCEPT ![VideoDir(j)] = HandlerFiles(@)]
    /\ UNCHANGED <<videos, step, stage_result, raised, frames_dir, visual_desc, ffmpeg_runs,
                   pollVars, cancel_response, intakeVars, conceptVars,
                   last_generative_call, now, clientVars>>

\* The worker's loop runs the oldest queued _update coroutine:
\* video = Video.get_or_none(id); if video: set fields; video.save().
RunUpdate(j) ==
    /\ worker[j] = "returned"
    /\ pending_updates[j] # <<>>
    /\ videos' = [videos EXCEPT ![j] =
           IF @ = NoVideo THEN NoVideo ELSE ApplyUpdate(@, Head(pending_updates[j]))]
    /\ pending_updates' = [pending_updates EXCEPT ![j] = Tail(@)]
    /\ UNCHANGED <<completed_videos, worker, step, stage_result, raised, frames_dir, visual_desc,
                   diskVars, pollVars, cancel_response, intakeVars, conceptVars,
                   last_generative_call, now, clientVars>>

\* finally: loop.close() - coroutines still queued are discarded.
LoopClose(j) ==
    /\ worker[j] = "returned"
    /\ worker' = [worker EXCEPT ![j] = "closed"]
    /\ pending_updates' = [pending_updates EXCEPT ![j] = <<>>]
    /\ UNCHANGED <<videos, completed_videos, step, stage_result, raised, frames_dir, visual_desc,
                   diskVars, pollVars, cancel_response, intakeVars, conceptVars,
                   last_generative_call, now, clientVars>>

\* ------------------------------------------------------------------------
\* Status poll: get_generation_status
\* ------------------------------------------------------------------------

Max(a, b) == IF a >= b THEN a ELSE b

\* The response body that the poll returns with code 200.
StatusBody(v) == [code |-> 200, status |-> v.status, progress |-> v.progress]

\* completed = get_completed_video(video_id); `if completed:` selects the
\* merge branch or goes straight to "Get from DB".
PollBegin(j) ==
    /\ poll_pc[j] = "idle"
    /\ poll_completed' = [poll_completed EXCEPT ![j] = completed_videos[j]]
    /\ poll_pc' = [poll_pc EXCEPT ![j] =
           IF completed_videos[j] = NoEntry THEN "fetch" ELSE "merge"]
    /\ UNCHANGED <<videos, completed_videos, workerVars, poll_video, status_response,
                   seen_progress, cancel_response, intakeVars, conceptVars, entry_polled,
                   last_generative_call, now, clientVars>>

\* The fields the completed branch assigns before video.save().
MergeCompleted(v, c) ==
    [v EXCEPT !.status = "completed", !.progress = 100,
              !.output_path = c.output_path,
              !.file_size = c.file_size,
              !.generation_time = c.generation_time,
              !.quality_score = c.quality_score,
              !.completed_at = c.completed_at]

\* Branch completed["status"] == "completed": the Video object is fetched and
\* its fields are assigned in memory up to completed["quality_score"], a key
\* the worker never stores in the handoff entry (KeyError).  The handler's
\* `except Exception` turns it into a 500 response before video.save().
PollMergeCompleted(j) ==
    /\ poll_pc[j] = "merge"
    /\ poll_completed[j].status = "completed"
    /\ IF videos[j] = NoVideo
       THEN /\ poll_pc' = [poll_pc EXCEPT ![j] = "fetch"]
            /\ UNCHANGED <<poll_video, poll_completed, status_response>>
       ELSE IF "quality_score" \in DOMAIN poll_completed[j]
       THEN /\ poll_pc' = [poll_pc EXCEPT ![j] = "save"]
            /\ poll_video' = [poll_video EXCEPT ![j] =
                   MergeCompleted(videos[j], poll_completed[j])]
            /\ UNCHANGED <<poll_completed, status_response>>
       ELSE /\ poll_pc' = [poll_pc EXCEPT ![j] = "idle"]
            /\ poll_completed' = [poll_completed EXCEPT ![j] = NoEntry]
            /\ status_response' = [status_response EXCEPT ![j] = HttpError(500)]
            /\ UNCHANGED poll_video
    /\ entry_polled' = [entry_polled EXCEPT ![j] = @ \/ poll_pc'[j] = "idle"]
    /\ UNCHANGED <<videos, completed_videos, workerVars, seen_progress, cancel_response, intakeVars, conceptVars,
                   last_generative_call, now, clientVars>>

\* The fields the failed branch assigns before video.save().
MergeFailed(v, c) ==
    [v EXCEPT !.status = "failed", !.error_message = c.error]

\* Branch "failed": video = await Video.get_or_none(id); status and
\* error_message are assigned on the fetched object.
PollMergeFailed(j) ==
    /\ poll_pc[j] = "merge"
    /\ poll_completed[j].status # "completed"
    /\ IF videos[j] = NoVideo
       THEN /\ poll_pc' = [poll_pc EXCEPT ![j] = "fetch"]
            /\ UNCHANGED poll_video
       ELSE /\ poll_pc' = [poll_pc EXCEPT ![j] = "save"]
            /\ poll_video' = [poll_video EXCEPT ![j] =
                   MergeFailed(videos[j], poll_completed[j])]
    /\ UNCHANGED <<videos, completed_videos, workerVars, poll_completed,
                   status_response, seen_progress, cancel_response, intakeVars, conceptVars, entry_polled,
                   last_generative_call, now, clientVars>>

\* A save that inserts the object when its row is gone.
SaveRow_Upsert(row, obj) == obj

\* video.save() of an object that was fetched from the table: an UPDATE of
\* the row with its id, which changes nothing when the row has been deleted.
SaveRow(row, obj) == IF row = NoVideo THEN NoVideo ELSE obj

\* await video.save(): the fetched object, all columns, is written back.
PollSave(j) ==
    /\ poll_pc[j] = "save"
    /\ videos' = [videos EXCEPT ![j] = SaveRow(@, poll_video[j])]
    /\ poll_video' = [poll_video EXCEPT ![j] = NoVideo]
    /\ poll_pc' = [poll_pc EXCEPT ![j] = "fetch"]
    /\ UNCHANGED <<completed_videos, workerVars, poll_completed, status_response,
                   seen_progress, cancel_response, intakeVars, conceptVars, entry_polled,
                   last_generative_call, now, clientVars>>

\* "Get from DB": the row is read again and returned, or 404.
PollFetch(j) ==
    /\ poll_pc[j] = "fetch"
    /\ poll_pc' = [poll_pc EXCEPT ![j] = "idle"]
    /\ IF videos[j] = NoVideo
       THEN /\ status_response' = [status_response EXCEPT ![j] = HttpError(404)]
            /\ UNCHANGED seen_progress
       ELSE /\ status_response' = [status_response EXCEPT ![j] = StatusBody(videos[j])]
            /\ seen_progress' = [seen_progress EXCEPT ![j] =
                   IF videos[j].status \in ActiveStatus
                   THEN Max(@, videos[j].progress) ELSE @]
    /\ poll_completed' = [poll_completed EXCEPT ![j] = NoEntry]
    /\ entry_polled' = [entry_polled EXCEPT ![j] = @ \/ poll_completed[j].exists]
    /\ UNCHANGED <<videos, completed_videos, workerVars, poll_video, cancel_response, intakeVars, conceptVars,
                   last_generative_call, now, clientVars>>

\* ------------------------------------------------------------------------
\* cleanup_pending_tasks
\* ------------------------------------------------------------------------

\* pending_videos = await Video.filter(status__in=["pending", "processing"]):
\* the rows to delete are those that are pending or processing now.
cleanup_filter ==
    /\ cleanup.targets = {}
    /\ cleanup' = [cleanup EXCEPT !.targets =
           {j \in Jobs : videos[j].exists /\ videos[j].status \in ActiveStatus}]
    /\ cleanup'.targets # {}
    /\ UNCHANGED <<videos, completed_videos, workerVars, pollVars, cancel_response,
                   start_request, start_response, conceptVars, last_generative_call, now,
                   clientVars>>

\* for video in pending_videos: await video.delete() - the row of job j goes,
\* whatever has been written to it since the filter; its id is not given to
\* a later row.
cleanup_delete(j) ==
    /\ j \in cleanup.targets
    /\ videos' = [videos EXCEPT ![j] = NoVideo]
    /\ cleanup' = [targets |-> cleanup.targets \ {j}, deleted |-> cleanup.deleted \cup {j}]
    /\ UNCHANGED <<completed_videos, workerVars, pollVars, cancel_response,
                   start_request, start_response, conceptVars, last_generative_call, now,
                   clientVars>>

\* ------------------------------------------------------------------------
\* cancel_generation
\* ------------------------------------------------------------------------

\* 404 for an unknown id, 400 for a terminal status; otherwise the handler
\* calls gen_service.mark_failed(video_id, "Cancelled by user").
\* VideoGenerationService defines no mark_failed: the call raises
\* AttributeError, the handler answers 500, and nothing has been written.
\* The worker thread is not touched on any path.
cancel_generation(j) ==
    /\ cancel_response' = [cancel_response EXCEPT ![j] =
           IF videos[j] = NoVideo THEN HttpError(404)
           ELSE IF videos[j].status \notin ActiveStatus THEN HttpError(400)
           ELSE HttpError(500)]
    /\ cancel_response'[j] # cancel_response[j]
    /\ UNCHANGED <<videos, completed_videos, workerVars, pollVars, intakeVars, conceptVars,
                   last_generative_call, now, clientVars>>

\* ------------------------------------------------------------------------
\* Steps 6, 8 and 9 of generate_video: the sizes computed from the narration
\* ------------------------------------------------------------------------

\* The value a step leaves behind when it raised instead of computing it.
Raised == -2

RECURSIVE Pow(_, _)
\* b ** e for e >= 0.
Pow(b, e) == IF e = 0 THEN 1 ELSE b * Pow(b, e - 1)

RECURSIVE PowMod(_, _, _)
\* (b ** e) % c without the intermediate power.
PowMod(b, e, c) == IF e = 0 THEN 1 % c ELSE (b * PowMod(b, e - 1, c)) % c

RECURSIVE FloorLog(_)
\* The exponent of the integer n >= 1: the largest e with FloatRadix ** e <= n.
FloorLog(n) == IF n < FloatRadix THEN 0 ELSE 1 + FloorLog(n \div FloatRadix)

RECURSIVE Shift(_, _)
\* The smallest e >= 0 with d * FloatRadix ** e >= c, for d >= 1.
Shift(d, c) == IF d >= c THEN 0 ELSE 1 + Shift(FloatRadix * d, c)

\* The exponent of the quotient d / c (d, c >= 1): the largest e, negative
\* when d < c, with FloatRadix ** e <= d / c.
QuotientExponent(d, c) == IF d >= c THEN FloorLog(d \div c) ELSE 0 - Shift(d, c)

\* duration / num_concepts is a float division: the quotient is rounded to the
\* nearest float of FloatPrecision digits. With e the exponent of d / c and
\* ulp = FloatRadix ** (e - FloatPrecision + 1), the digits kept are
\* d / (c * ulp) rounded to an integer, so the float is d / c + (r / c) * ulp
\* where r is what TrueDivError returns: minus the remainder when it is under
\* half of c, c minus the remainder otherwise (a remainder of exactly half of
\* c needs a quotient of more than FloatPrecision digits, which no d below
\* FloatRadix ** FloatPrecision has).
TrueDivError(d, c) ==
    LET rem == (d * PowMod(FloatRadix, FloatPrecision - 1 - QuotientExponent(d, c), c)) % c
    IN  IF 2 * rem < c THEN 0 - rem ELSE c - rem

\* int(fps * (d / c)) for integers fps, d, c with c >= 1: the float quotient
\* is multiplied by fps, the product is rounded to the nearest float and int
\* drops its fraction. When fps * d / c is not an integer it lies at least
\* 1 / c from the next one, far more than both roundings, and int gives its
\* floor. When it is an integer m, a quotient rounded up or exact gives m; a
\* quotient rounded down puts the product under m by fps * (-r / c) * ulp, and
\* the product rounds back to m only if that is at most half the distance from
\* m to the float below it (FloatRadix ** (j - FloatPrecision + 1) for m of
\* exponent j, half of that when m is a power of the radix); below m, int
\* gives m - 1.
IntOfProduct(fps, d, c) ==
    LET m == (fps * d) \div c
        r == TrueDivError(d, c)
        j == FloorLog(m)
        halves == IF m = Pow(FloatRadix, j) THEN 4 ELSE 2
    IN  IF d = 0 \/ (fps * d) % c # 0 \/ r >= 0 THEN m
        ELSE IF halves * fps * (0 - r) > c * Pow(FloatRadix, j - QuotientExponent(d, c))
             THEN m - 1
             ELSE m

\* frame_duration = duration / num_concepts
\* return max(15, int(cls.FPS * frame_duration))
get_frames_per_concept(duration, count) ==
    Max(MinFramesPerConcept, IntOfProduct(FPS, duration, count))

\* A table whose tiers start at 300 and 600 seconds instead of after them.
get_crf_quality_Inclusive(duration) ==
    IF duration >= 600 THEN 22
    ELSE IF duration >= 300 THEN 20
    ELSE 18

\* if duration > 600: 22; elif duration > 300: 20; else: 18
get_crf_quality(duration) ==
    IF duration > 600 THEN 22
    ELSE IF duration > 300 THEN 20
    ELSE 18

\* The non-empty stripped lines of response.text.
AnswerLines(n) == [i \in 1..n |-> [text |-> "line", index |-> i]]

\* [f"Concept {i+1}" for i in range(num_concepts)]
FallbackConcepts(n) == [i \in 1..n |-> [text |-> "Concept", index |-> i]]

\* concepts[:num_concepts]
Take(seq, n) == SubSeq(seq, 1, IF Len(seq) < n THEN Len(seq) ELSE n)

\* The lengths the request may ask for.
TargetDurations == {60, 120}

\* Any measured narration, any requested length.
InitSizing ==
    /\ InitJobs
    /\ actual_duration \in 0..MaxDuration
    /\ num_concepts = NotComputed
    /\ target_duration \in TargetDurations

\* _extract_visual_concepts: the first num_concepts lines of the answer, or
\* the fallback list when the request raised.
extract_visual_concepts(lines, o) ==
    /\ num_concepts # NotComputed
    /\ concept_answer = NoAnswer
    /\ o = "error" => lines = 0
    /\ concept_answer' = [outcome |-> o, lines |-> lines]
    /\ concepts' = IF o = "ok" THEN Take(AnswerLines(lines), num_concepts)
                   ELSE FallbackConcepts(num_concepts)
    /\ UNCHANGED <<actual_duration, num_concepts, target_duration, frames_per_concept,
                   frame_count, crf, previous_run, jobVars, now, clientVars>>

\* A frame step that renders nothing for an empty list instead of dividing.
generate_visual_frames_EmptyRendersNothing ==
    /\ concept_answer # NoAnswer
    /\ frames_per_concept = NotComputed
    /\ frames_per_concept' =
           IF Len(concepts) = 0 THEN MinFramesPerConcept
           ELSE get_frames_per_concept(SizingDuration(target_duration, actual_duration),
                                       Len(concepts))
    /\ frame_count' = Len(concepts) * frames_per_concept'
    /\ UNCHANGED <<actual_duration, num_concepts, target_duration, concept_answer, concepts,
                   crf, previous_run, jobVars, now, clientVars>>

\* _generate_visual_frames_with_animations: frames_per_concept frames for each
\* concept, saved as frame_00000.png, frame_00001.png, ... while frame_count
\* counts them; with an empty list get_frames_per_concept divides by zero and
\* the step raises.
generate_visual_frames ==
    /\ concept_answer # NoAnswer
    /\ frames_per_concept = NotComputed
    /\ IF Len(concepts) = 0
       THEN /\ frames_per_concept' = Raised
            /\ UNCHANGED frame_count
       ELSE /\ frames_per_concept' =
                get_frames_per_concept(SizingDuration(target_duration, actual_duration),
                                       Len(concepts))
            /\ frame_count' = Len(concepts) * frames_per_concept'
    /\ UNCHANGED <<actual_duration, num_concepts, target_duration, concept_answer, concepts,
                   crf, previous_run, jobVars, now, clientVars>>

\* crf = self.config.get_crf_quality(int(duration)) of _compile_video
compile_video_quality ==
    /\ frame_count # NotComputed
    /\ crf = NotComputed
    /\ crf' = get_crf_quality(SizingDuration(target_duration, actual_duration))
    /\ UNCHANGED <<actual_duration, num_concepts, target_duration, concept_answer, concepts,
                   frames_per_concept, frame_count, previous_run, jobVars, now, clientVars>>

\* What one run computed, with the inputs it computed it from.
RunSizes ==
    [exists |-> TRUE, target_duration |-> target_duration,
     actual_duration |-> actual_duration, concept_answer |-> concept_answer,
     num_concepts |-> num_concepts, concepts |-> concepts,
     frames_per_concept |-> frames_per_concept, frame_count |-> frame_count, crf |-> crf]

\* A second submission: generate_video runs again for a request asking for
\* `target` seconds whose narration measures the same.
NextRun(target) ==
    /\ crf # NotComputed
    /\ previous_run = NoRun
    /\ previous_run' = RunSizes
    /\ target_duration' = target
    /\ num_concepts' = NotComputed
    /\ concept_answer' = NoAnswer
    /\ concepts' = <<>>
    /\ frames_per_concept' = NotComputed
    /\ frame_count' = NotComputed
    /\ crf' = NotComputed
    /\ UNCHANGED <<actual_duration, jobVars, now, clientVars>>

\* ------------------------------------------------------------------------
\* ExternalGenerationClient: GeminiClient._enforce_rate_limit
\* ------------------------------------------------------------------------

\* elapsed = current_time - self.last_request_time
Elapsed(t) == t - last_request_time

\* A wait that is one second short of the interval.
WaitTime_Short(elapsed) == REQUEST_INTERVAL - elapsed - 1

\* wait_time = self.rate_limit_interval - elapsed
WaitTime(elapsed) == REQUEST_INTERVAL - elapsed

\* self.last_request_time = time.time(); self.request_count += 1; the call
\* of caller c is released to the external service at time `now`.
Release(c, entered) ==
    /\ last_request_time' = now
    /\ request_count' = request_count + 1
    /\ releases' = Append(releases, [caller |-> c, entered |-> entered, released |-> now])
    /\ call_pc' = [call_pc EXCEPT ![c] = "calling"]

\* Calls that have entered the client so far.
CallsEntered ==
    Len(releases) + Cardinality({c \in Callers : call_pc[c] = "sleeping"})

\* generate / generate_json begin with `await self._enforce_rate_limit()`.
\* Without a wait the method runs to its end without suspending; with a wait
\* it suspends in asyncio.sleep(wait_time) and other callers may run.
EnterRateLimit(c) ==
    /\ gemini_client # NoClient
    /\ call_pc[c] = "idle"
    /\ CallsEntered < MaxCalls
    /\ IF Elapsed(now) < REQUEST_INTERVAL
       THEN /\ wake_at' = [wake_at EXCEPT ![c] = now + WaitTime(Elapsed(now))]
            /\ entered_at' = [entered_at EXCEPT ![c] = now]
            /\ call_pc' = [call_pc EXCEPT ![c] = "sleeping"]
            /\ UNCHANGED <<last_request_time, request_count, releases>>
       ELSE /\ Release(c, now)
            /\ UNCHANGED <<wake_at, entered_at>>
    /\ UNCHANGED <<jobVars, conceptVars, now, callVars>>

\* asyncio.sleep returns once wait_time has passed (not earlier, possibly
\* later); the rest of _enforce_rate_limit then runs.
WakeUp(c) ==
    /\ call_pc[c] = "sleeping"
    /\ now >= wake_at[c]
    /\ Release(c, entered_at[c])
    /\ UNCHANGED <<wake_at, entered_at>>
    /\ UNCHANGED <<jobVars, conceptVars, now, callVars>>

\* Calls that have entered the client so far, those between lines 48 and 57
\* included.
ThreadCallsEntered ==
    Len(releases) + Cardinality({c \in Callers : call_pc[c] \notin {"idle", "calling"}})

\* _enforce_rate_limit entered by a caller that runs in a thread of its own
\* (a job's worker with its private event loop): lines 48-54.  The statements
\* of lines 56 and 57 follow one by one, and any other thread may run between
\* two of them.
thread_enter(c) ==
    /\ gemini_client # NoClient
    /\ call_pc[c] = "idle"
    /\ ThreadCallsEntered < MaxThreadCalls
    /\ entered_at' = [entered_at EXCEPT ![c] = now]
    /\ IF Elapsed(now) < REQUEST_INTERVAL
       THEN /\ wake_at' = [wake_at EXCEPT ![c] = now + WaitTime(Elapsed(now))]
            /\ call_pc' = [call_pc EXCEPT ![c] = "sleeping"]
       ELSE /\ call_pc' = [call_pc EXCEPT ![c] = "line 56"]
            /\ UNCHANGED wake_at
    /\ UNCHANGED <<jobVars, conceptVars, now, last_request_time, request_count, releases,
                   callVars>>

\* asyncio.sleep(wait_time) returns in the caller's loop.
thread_wake_up(c) ==
    /\ call_pc[c] = "sleeping"
    /\ now >= wake_at[c]
    /\ call_pc' = [call_pc EXCEPT ![c] = "line 56"]
    /\ UNCHANGED <<jobVars, conceptVars, now, last_request_time, request_count, wake_at,
                   entered_at, releases, callVars>>

\* Line 56, right-hand side: time.time() is called and returns.
thread_read_clock(c) ==
    /\ call_pc[c] = "line 56"
    /\ stamp' = [stamp EXCEPT ![c] = now]
    /\ call_pc' = [call_pc EXCEPT ![c] = "store 56"]
    /\ UNCHANGED <<jobVars, conceptVars, now, last_request_time, request_count, wake_at,
                   entered_at, releases, gemini_client, daily_token_count, token_warnings,
                   service_calls, call_result, response_usage, singletonVars, loaded_count>>

\* Line 56, the assignment: self.last_request_time = <the value returned>.
thread_store_time(c) ==
    /\ call_pc[c] = "store 56"
    /\ last_request_time' = stamp[c]
    /\ call_pc' = [call_pc EXCEPT ![c] = "line 57"]
    /\ UNCHANGED <<jobVars, conceptVars, now, request_count, wake_at, entered_at, releases,
                   callVars>>

\* Line 57, `self.request_count += 1`: the attribute is read.
thread_load_count(c) ==
    /\ call_pc[c] = "line 57"
    /\ loaded_count' = [loaded_count EXCEPT ![c] = request_count]
    /\ call_pc' = [call_pc EXCEPT ![c] = "store 57"]
    /\ UNCHANGED <<jobVars, conceptVars, now, last_request_time, request_count, wake_at,
                   entered_at, releases, gemini_client, daily_token_count, token_warnings,
                   service_calls, call_result, response_usage, singletonVars, stamp>>

\* Line 57: the sum is stored, and _enforce_rate_limit returns (lines 60-63
\* only log): the call has passed the rate limit, and the values the thread
\* held for the two statements are gone.
thread_store_count(c) ==
    /\ call_pc[c] = "store 57"
    /\ request_count' = loaded_count[c] + 1
    /\ releases' = Append(releases, [caller |-> c, entered |-> entered_at[c],
                                     released |-> stamp[c]])
    /\ call_pc' = [call_pc EXCEPT ![c] = "calling"]
    /\ stamp' = [stamp EXCEPT ![c] = 0]
    /\ loaded_count' = [loaded_count EXCEPT ![c] = 0]
    /\ UNCHANGED <<jobVars, conceptVars, now, last_request_time, wake_at, entered_at,
                   gemini_client, daily_token_count, token_warnings, service_calls,
                   call_result, response_usage, singletonVars>>

\* get_gemini_client on its first call: _gemini_client = GeminiClient().
\* __init__ sets the counters to zero and self.client to the genai module, or
\* leaves self.client None when the import or genai.configure raises.
get_gemini_client(initialised) ==
    /\ gemini_client = NoClient
    /\ gemini_client' = IF initialised THEN "initialised" ELSE "uninitialised"
    /\ last_request_time' = 0
    /\ request_count' = 0
    /\ daily_token_count' = 0
    /\ client_instances' = client_instances + 1
    /\ UNCHANGED <<call_pc, wake_at, entered_at, releases, token_warnings,
                   service_calls, call_result, response_usage, context_pc, context_client,
                   registerVars>>
    /\ UNCHANGED <<jobVars, conceptVars, now>>

\* get_gemini_client run by thread c, line 198: `if _gemini_client is None:`.
\* No lock is held, so another thread may run between this test and the
\* assignment of line 199.
get_gemini_client_check(c) ==
    /\ context_pc[c] = "idle"
    /\ context_pc' = [context_pc EXCEPT ![c] =
           IF gemini_client = NoClient THEN "create" ELSE "return"]
    /\ UNCHANGED <<jobVars, conceptVars, now, last_request_time, request_count, call_pc,
                   wake_at, entered_at, releases, gemini_client, daily_token_count,
                   token_warnings, service_calls, call_result, response_usage,
                   client_instances, context_client, registerVars>>

\* Line 199: `_gemini_client = GeminiClient()` - a new object with its own
\* counters at zero becomes the module's client, whatever was stored before.
get_gemini_client_create(c, initialised) ==
    /\ context_pc[c] = "create"
    /\ context_pc' = [context_pc EXCEPT ![c] = "return"]
    /\ client_instances' = client_instances + 1
    /\ gemini_client' = IF initialised THEN "initialised" ELSE "uninitialised"
    /\ last_request_time' = 0
    /\ request_count' = 0
    /\ daily_token_count' = 0
    /\ UNCHANGED <<jobVars, conceptVars, now, call_pc, wake_at, entered_at, releases,
                   token_warnings, service_calls, call_result, response_usage,
                   context_client, registerVars>>

\* Line 200: `return _gemini_client` - the object the global names now.
get_gemini_client_return(c) ==
    /\ context_pc[c] = "return"
    /\ context_pc' = [context_pc EXCEPT ![c] = "done"]
    /\ context_client' = [context_client EXCEPT ![c] = client_instances]
    /\ UNCHANGED <<jobVars, conceptVars, now, last_request_time, request_count, call_pc,
                   wake_at, entered_at, releases, gemini_client, daily_token_count,
                   token_warnings, service_calls, call_result, response_usage,
                   client_instances, registerVars>>

\* A client that stops calling the service once the daily budget is spent.
ServiceReached_WithinBudget(client, count) ==
    client = "initialised" /\ count <= DAILY_TOKEN_LIMIT

\* `if not self.client: return None` is the only test between the rate limit
\* and the request; the token counter is not looked at.
ServiceReached(client, count) == client = "initialised"

\* A timeout that is re-raised to the caller instead of being turned into None.
FailureResult_Propagated(m, o) ==
    IF o = "timeout" THEN [method |-> m, outcome |-> o, raised |-> TRUE, value |-> None]
    ELSE [method |-> m, outcome |-> o, raised |-> FALSE, value |-> None]

\* Every failure path of generate and generate_json ends in `return None`.
FailureResult(m, o) == [method |-> m, outcome |-> o, raised |-> FALSE, value |-> None]

\* return response.text / return json.loads(response.text)
SuccessResult(m) ==
    [method |-> m, outcome |-> "ok", raised |-> FALSE,
     value |-> IF m = "generate" THEN "text" ELSE "object"]

\* if self.daily_token_count > 800_000: logger.warning(...)
WarningDue(count) == count > TOKEN_WARNING_LEVEL

\* What a call adds to daily_token_count for a response that reports
\* `tokens`: generate adds them (lines 104-109), generate_json has no such
\* statement.
TrackedTokens(m, tokens) == IF m = "generate" THEN tokens ELSE 0

\* The rest of generate (m = "generate") or generate_json after the rate
\* limit: the client test, the request under asyncio.wait_for, the token
\* tracking (generate only), and the return value of every path.  `tokens`
\* is what the response of a successful request reports.
ReturnFromCall(c, m, o, tokens) ==
    /\ call_pc[c] = "calling"
    /\ call_pc' = [call_pc EXCEPT ![c] = "idle"]
    /\ (o = "uninitialised") <=> ~ServiceReached(gemini_client, daily_token_count)
    /\ o = "unparsable" => m = "generate_json"
    /\ tokens # 0 => o = "ok"
    /\ service_calls' = IF o = "uninitialised" THEN service_calls ELSE service_calls + 1
    /\ response_usage' = IF o = "ok" THEN tokens ELSE response_usage
    /\ daily_token_count' = daily_token_count + TrackedTokens(m, tokens)
    /\ token_warnings' =
           IF m = "generate" /\ o = "ok" /\ tokens # 0 /\ WarningDue(daily_token_count')
           THEN token_warnings + 1 ELSE token_warnings
    /\ call_result' = [call_result EXCEPT ![c] =
           IF o = "ok" THEN SuccessResult(m) ELSE FailureResult(m, o)]
    /\ UNCHANGED <<last_request_time, request_count, wake_at, entered_at, releases,
                   gemini_client, singletonVars, registerVars>>
    /\ UNCHANGED <<jobVars, conceptVars, now>>

\* One second passes.
Tick ==
    /\ now < Epoch + MaxTime
    /\ now' = now + 1
    /\ UNCHANGED <<jobVars, conceptVars, clientVars>>

ClientStep(c) ==
    \/ \E initialised \in BOOLEAN : get_gemini_client(initialised)
    \/ EnterRateLimit(c)
    \/ WakeUp(c)
    \/ \E m \in Methods, o \in CallOutcomes, tokens \in TokenUsage :
           ReturnFromCall(c, m, o, tokens)

\* ------------------------------------------------------------------------
\* Specifications
\* ------------------------------------------------------------------------

\* The job whose request handlers (poll, cancel) are followed in Spec.
PolledJob == CHOOSE j \in Jobs : \A i \in Jobs : j <= i

\* The caller that issues its calls one after the other in SpecSequential.
SequentialCaller == CHOOSE c \in Callers : \A d \in Callers : c <= d

\* generate_video from dispatch to its return and the closing of the loop.
PipelineStep(j) ==
    \/ run_video_generation_in_thread(j)
    \/ \E k \in 1..9, o \in StageOutcomes : RunStage(j, k, o, UsualRuns(k, o))
    \/ \E o \in StageOutcomes : Finalize(j, o)
    \/ except_handler(j)
    \/ LoopClose(j)

\* Stage 9 with every way its two ffmpeg runs can end.
CompileStep(j) ==
    \E o \in StageOutcomes : \E runs \in CompileRuns(o) : RunStage(j, 9, o, runs)

WorkerStep(j) == PipelineStep(j) \/ RunUpdate(j)

RequestStep(j) ==
    \/ start_generation(j, ExampleRequest)
    \/ PollBegin(j)
    \/ PollMergeCompleted(j)
    \/ PollMergeFailed(j)
    \/ PollSave(j)
    \/ PollFetch(j)
    \/ cancel_generation(j)

\* One job with its worker, its status polls and its cancel requests.
Next == WorkerStep(PolledJob) \/ RequestStep(PolledJob)

Spec == Init /\ [][Next]_vars

\* Two jobs whose pipelines run at the same time, with the clock.  The
\* queued row updates of a job touch only its own row and are followed in Spec.
NextJobs ==
    \/ \E j \in Jobs : start_generation(j, ExampleRequest) \/ PipelineStep(j)
    \/ Tick

SpecJobs == Init /\ [][NextJobs]_vars

\* One job with its worker and its status polls, and cleanup-pending called
\* at any moment.
NextCleanup ==
    \/ start_generation(PolledJob, ExampleRequest)
    \/ WorkerStep(PolledJob)
    \/ PollBegin(PolledJob)
    \/ PollMergeCompleted(PolledJob)
    \/ PollMergeFailed(PolledJob)
    \/ PollSave(PolledJob)
    \/ PollFetch(PolledJob)
    \/ cleanup_filter
    \/ \E j \in Jobs : cleanup_delete(j)

SpecCleanup == Init /\ [][NextCleanup]_vars

\* Stage k of job j when steps 6 and 8 are computed from the answer of the
\* concept request: step 6 ends as the request ended, and step 8 raises when
\* get_frames_per_concept raised.
SizedStage(j, k, o) ==
    /\ k = 6 => concept_answer # NoAnswer /\ o = concept_answer.outcome
    /\ k = 8 => /\ frames_per_concept # NotComputed
                /\ frames_per_concept = Raised => o = "error"
    /\ RunStage(j, k, o, UsualRuns(k, o))

\* One job whose list of concepts is what _extract_visual_concepts made of
\* the answer, an answer without a single non-empty line included.
NextRendering ==
    \/ start_generation(PolledJob, ExampleRequest)
    \/ run_video_generation_in_thread(PolledJob)
    \/ \E k \in 1..9, o \in StageOutcomes : SizedStage(PolledJob, k, o)
    \/ /\ worker[PolledJob] = "running" /\ step[PolledJob] = 5
       /\ ComputeConcepts
    \/ /\ worker[PolledJob] = "running" /\ step[PolledJob] = 5
       /\ \E lines \in 0..MaxLines, o \in StageOutcomes : extract_visual_concepts(lines, o)
    \/ /\ worker[PolledJob] = "running" /\ step[PolledJob] = 7
       /\ generate_visual_frames
    \/ \E o \in StageOutcomes : Finalize(PolledJob, o)
    \/ except_handler(PolledJob)
    \/ RunUpdate(PolledJob)
    \/ LoopClose(PolledJob)

SpecRendering == Init /\ [][NextRendering]_vars

\* Callers that run in threads of their own share the client: the calls of
\* each go through _enforce_rate_limit statement by statement.
ThreadStep(c) ==
    \/ get_gemini_client(TRUE)
    \/ thread_enter(c)
    \/ thread_wake_up(c)
    \/ thread_read_clock(c)
    \/ thread_store_time(c)
    \/ thread_load_count(c)
    \/ thread_store_count(c)
    \/ \E o \in {"ok", "error"} : ReturnFromCall(c, "generate", o, 0)

NextThreads ==
    \/ \E c \in Callers : ThreadStep(c)
    \/ now < Epoch + MaxThreadTime /\ Tick

SpecThreads == Init /\ [][NextThreads]_vars

\* The threads of the process call get_gemini_client, each for the first
\* time, in any interleaving of their statements.
NextSingleton ==
    \E c \in Contexts :
        \/ get_gemini_client_check(c)
        \/ \E initialised \in BOOLEAN : get_gemini_client_create(c, initialised)
        \/ get_gemini_client_return(c)

SpecSingleton == Init /\ [][NextSingleton]_vars

\* The worker of job j with the errors that end a run: an error a stage
\* swallows changes nothing in what the worker goes on to write.
IsolatedWorkerStep(j) ==
    \/ run_video_generation_in_thread(j)
    \/ \E k \in 1..9, o \in StageOutcomes :
           /\ o = "error" => k \in RaisingStages
           /\ RunStage(j, k, o, UsualRuns(k, o))
    \/ \E o \in StageOutcomes : Finalize(j, o)
    \/ except_handler(j)
    \/ RunUpdate(j)
    \/ LoopClose(j)

\* Two jobs with their pipelines and the row updates their workers queued,
\* without polls and without the clock.
NextWorkers == \E j \in Jobs : start_generation(j, ExampleRequest) \/ IsolatedWorkerStep(j)

SpecWorkers == Init /\ [][NextWorkers]_vars

\* Two jobs whose requests and pipelines interleave, without the clock.
NextDispatch ==
    \E j \in Jobs : start_generation(j, ExampleRequest) \/ PipelineStep(j) \/ CompileStep(j)

SpecDispatch == Init /\ [][NextDispatch]_vars

\* The pacing of a call whose request is answered: get_gemini_client,
\* _enforce_rate_limit and the return of the text.
PacingStep(c) ==
    \/ get_gemini_client(TRUE)
    \/ EnterRateLimit(c)
    \/ WakeUp(c)
    \/ ReturnFromCall(c, "generate", "ok", 0)

\* Request intake: any request, and the pipeline of a job once it is created.
NextIntake ==
    \/ \E j \in Jobs, r \in Requests : start_generation(j, r)
    \/ PipelineStep(PolledJob)

SpecIntake == Init /\ [][NextIntake]_vars

\* get_num_concepts applied to every narration length.
SpecConcepts == InitConcepts /\ [][ComputeConcepts]_vars

\* One run sized step by step, then a second one with the same narration.
NextSizing ==
    \/ ComputeConcepts
    \/ \E lines \in 0..MaxLines, o \in StageOutcomes : extract_visual_concepts(lines, o)
    \/ generate_visual_frames
    \/ compile_video_quality
    \/ \E target \in TargetDurations : NextRun(target)

SpecSizing == InitSizing /\ [][NextSizing]_vars

\* Concurrent callers of the rate-limited client.
NextClient == (\E c \in Callers : PacingStep(c)) \/ Tick

SpecClient == Init /\ [][NextClient]_vars

\* One caller issuing consecutive calls from a cold start.
NextSequential == ClientStep(SequentialCaller) \/ Tick

SpecSequential == Init /\ [][NextSequential]_vars

\* ------------------------------------------------------------------------
\* Properties
\* ------------------------------------------------------------------------

\* The spacing the quota asks for: 60 / R seconds.
Spacing == 60 \div RPM_LIMIT

IsCompleted(e) == e.exists /\ e.status = "completed"

IsFailed(e) == e.exists /\ e.status = "failed"

Finished(j) == worker[j] \in {"returned", "closed"}

C2_PolledProgressNonDecreasing ==
    [][\A j \in Jobs :
          (/\ poll_pc[j] = "fetch"
           /\ poll_pc'[j] = "idle"
           /\ status_response'[j].code = 200
           /\ status_response'[j].status \in ActiveStatus)
              => status_response'[j].progress >= seen_progress[j]]_vars

\* A poll has returned progress 20 or more with an active status, and a later
\* poll has returned the terminal status.
C2_Witness ==
    \E j \in Jobs :
        /\ seen_progress[j] >= 20
        /\ status_response[j].code = 200
        /\ status_response[j].status \in TerminalStatus

\* C3: a job has outcome completed (handoff entry or row) only if every stage
\* except VisualDescription finished without an error.
C3_CompletedOnlyIfMandatoryStagesOk ==
    \A j \in Jobs :
        (IsCompleted(completed_videos[j]) \/ IsCompleted(videos[j]))
            => \A k \in Stages \ {BestEffortStage} : stage_result[j][k] = "ok"

\* C4: when a stage other than VisualDescription has hit an error, no later
\* stage is executed, the finished run has the failed handoff entry carrying
\* the error text, a failed row carries the same text, and no frame directory
\* exists when the stage was AudioSynthesis or an earlier one.
C4_MandatoryFailureAbortsRun ==
    \A j \in Jobs : \A k \in Stages \ {BestEffortStage} :
        stage_result[j][k] = "error" =>
            /\ step[j] = k
            /\ Finished(j) =>
                   completed_videos[j] =
                       [exists |-> TRUE, status |-> "failed", error |-> ErrorText(k)]
            /\ IsFailed(videos[j]) => videos[j].error_message = ErrorText(k)
            /\ k <= 5 => ~frames_dir[j]

\* C5: a status poll that finds the completed handoff entry of a job persists
\* and returns the terminal record: status completed, progress 100, the output
\* path, a positive file size, the generation time and the quality score.
C5_PollAfterCompletionReturnsTerminalRecord ==
    [][\A j \in Jobs :
          (/\ poll_pc[j] # "idle"
           /\ poll_pc'[j] = "idle"
           /\ IsCompleted(poll_completed[j])
           /\ videos[j].exists)
              => /\ status_response'[j] =
                        [code |-> 200, status |-> "completed", progress |-> 100]
                 /\ videos'[j].status = "completed"
                 /\ videos'[j].progress = 100
                 /\ videos'[j].output_path = OutputPath(j)
                 /\ videos'[j].file_size > 0
                 /\ videos'[j].generation_time = GenerationTime
                 /\ videos'[j].quality_score = QualityScore]_vars

\* C6: any two calls released by _enforce_rate_limit, whoever issued them, are
\* released at least one spacing interval apart.
C6_ReleasesSpacedApart ==
    \A a, b \in 1..Len(releases) :
        a < b => releases[b].released - releases[a].released >= Spacing

\* C7: a generative call of a pipeline stage passes through the rate-limited
\* client, and when it follows a call of another job it starts at least one
\* spacing interval after that call.
C7_StageCallsAreThrottled ==
    [][\A j \in Jobs :
          (last_generative_call'.job = j /\ last_generative_call.job \notin {0, j})
              => /\ request_count' = request_count + 1
                 /\ now >= last_generative_call.time + Spacing]_vars

\* C8: of N consecutive calls from a cold start the first is released when it
\* enters, every later one at least one spacing interval after the one before
\* it, so that the N releases span at least (N-1) x (60/R) seconds.
C8_ConsecutiveCallsSpan ==
    \A i \in 1..Len(releases) :
        /\ i = 1 => releases[i].released = releases[i].entered
        /\ i > 1 => releases[i].released >= releases[i - 1].released + Spacing
        /\ releases[i].released - releases[1].released >= (i - 1) * Spacing

\* Three consecutive calls have been released and a later one had to wait.
C8_Witness ==
    /\ Len(releases) >= 3
    /\ \E i \in 1..Len(releases) : releases[i].released > releases[i].entered

\* C9: the stages of a job begin one at a time in the fixed order, and stage
\* i+1 begins only when stage i has finished without an error.
C9_NextStageOnlyAfterSuccess ==
    [][\A j \in Jobs :
          step'[j] # step[j]
              => /\ step'[j] = step[j] + 1
                 /\ step[j] >= 1 => stage_result[j][step[j]] = "ok"]_vars

\* C10: a cancel request for a job whose status is pending or processing sets
\* the persisted status to failed with the text "Cancelled by user" and leaves
\* the worker of the job as it is.
C10_CancelMarksJobFailed ==
    [][\A j \in Jobs :
          (/\ cancel_response'[j] # cancel_response[j]
           /\ videos[j].exists
           /\ videos[j].status \in ActiveStatus)
              => /\ videos'[j].status = "failed"
                 /\ videos'[j].error_message = "Cancelled by user"
                 /\ worker'[j] = worker[j]
                 /\ step'[j] = step[j]]_vars

C13_ProgressFollowsCompletedStages ==
    \A j \in Jobs :
        (worker[j] = "running" /\ videos[j].exists)
            => videos[j].progress = (step[j] * 100) \div total_steps

\* C14: a worker that has finished, whatever its stages raised, has written
\* the handoff entry of its job, completed or failed; an entry once written is
\* never written again; and no step of the worker changes a response of the
\* request handlers.
C14_WorkerEndsWithOneHandoffEntry ==
    [][\A j \in Jobs :
          /\ worker'[j] \in {"returned", "closed"}
                 => (IsCompleted(completed_videos'[j]) \/ IsFailed(completed_videos'[j]))
          /\ completed_videos[j].exists => completed_videos'[j] = completed_videos[j]
          /\ (worker'[j] # worker[j] \/ step'[j] # step[j])
                 => /\ status_response' = status_response
                    /\ cancel_response' = cancel_response]_vars

\* A stage has raised, the handler has run and the worker has finished with
\* the failed handoff entry.
C14_Witness ==
    \E j \in Jobs :
        /\ worker[j] \in {"returned", "closed"}
        /\ raised[j] # 0
        /\ IsFailed(completed_videos[j])

\* C15: when VisualDescription (stage 7) has hit an error, its description is
\* empty, the error does not reach the handler and marks neither the handoff
\* entry nor the row failed, the worker goes on, and a run in which no later
\* stage fails ends after Finalization with the completed entry.
C15_VisualDescriptionFailureDegrades ==
    \A j \in Jobs :
        stage_result[j][BestEffortStage] = "error" =>
            /\ visual_desc[j] = ""
            /\ raised[j] # BestEffortStage
            /\ step[j] = BestEffortStage => worker[j] = "running"
            /\ (IsFailed(completed_videos[j]) \/ IsFailed(videos[j]))
                   => raised[j] \in {8, 9, 10}
            /\ (Finished(j) /\ \A k \in 8..10 : stage_result[j][k] # "error")
                   => /\ step[j] = total_steps
                      /\ \A k \in 8..10 : stage_result[j][k] = "ok"
                      /\ IsCompleted(completed_videos[j])

\* VisualDescription has failed and the run has finished with FrameRendering,
\* Compilation and Finalization done.
C15_Witness ==
    \E j \in Jobs :
        /\ stage_result[j][BestEffortStage] = "error"
        /\ visual_desc[j] = ""
        /\ Finished(j)
        /\ \A k \in 8..10 : stage_result[j][k] = "ok"
        /\ IsCompleted(completed_videos[j])

C17_FailuresAreTyped ==
    \A c \in Callers :
        (call_result[c] # NoResult /\ call_result[c].outcome # "ok")
            => /\ ~call_result[c].raised
               /\ call_result[c].value =
                      CASE call_result[c].outcome = "timeout" -> "Timeout"
                        [] call_result[c].outcome = "unparsable" -> "ParseError"
                        [] OTHER -> "ServiceError"

\* C17 (amended): a call of generate or generate_json raises nothing; it
\* returns None exactly when it failed, whatever the kind of the failure
\* (timeout, service error, uninitialised client, unparsable response), and the
\* text or the parsed object otherwise.
C17_FailuresReturnNone ==
    \A c \in Callers :
        call_result[c] # NoResult
            => /\ ~call_result[c].raised
               /\ call_result[c].outcome # "ok" <=> call_result[c].value = None
               /\ call_result[c].outcome = "ok"
                      => call_result[c].value =
                             (IF call_result[c].method = "generate" THEN "text"
                              ELSE "object")

\* A generate call has timed out and returned.
C17_Witness ==
    \E c \in Callers :
        /\ call_result[c] # NoResult
        /\ call_result[c].method = "generate"
        /\ call_result[c].outcome = "timeout"
        /\ service_calls >= 2

C19_InvalidRequestCreatesNothing ==
    [][(/\ <<start_request, start_response>>' # <<start_request, start_response>>
        /\ \/ start_request'.channel_id \notin KnownChannels
           \/ start_request'.duration < 60
           \/ start_request'.duration > 600
           \/ start_request'.source_ids = <<>>
           \/ \E i \in DOMAIN start_request'.source_ids :
                  start_request'.source_ids[i] \notin ExistingSources)
          => /\ start_response'.code \in {400, 404, 422}
             /\ videos' = videos
             /\ worker' = worker]_vars

\* A request with a known channel and a valid duration that names a missing
\* source has been rejected with 404, and no job record exists.
C19_Witness ==
    /\ start_response.code = 404
    /\ start_request.channel_id \in KnownChannels
    /\ start_request.duration = 60
    /\ \A j \in Jobs : videos[j] = NoVideo

\* C20: the number of concepts requested for a narration of d seconds is at
\* least 5 and at least the number requested for any shorter narration.
C20_ConceptsAtLeastFiveAndMonotone ==
    num_concepts # NotComputed =>
        /\ num_concepts >= 5
        /\ \A d \in 0..actual_duration : get_num_concepts(d) <= num_concepts

\* C21: for a narration of d seconds and c >= 1 concepts, FrameRendering
\* writes exactly max(15, floor(FPS * d / c)) frames for each concept and so
\* c times that many in all, frame_count numbering them 0, 1, ... with no
\* gap; the total is fixed by d, c and the frame rate.
C21_FramesPerConceptIsFloorOfRatio ==
    frames_per_concept \notin {NotComputed, Raised} =>
        /\ frames_per_concept =
               Max(MinFramesPerConcept, (FPS * actual_duration) \div Len(concepts))
        /\ frame_count = Len(concepts) * frames_per_concept

\* C22: Compilation removes the intermediate silent video only once the mux
\* has succeeded. After an encode that left the file and a mux that failed it
\* is still there, after a successful Compilation it is gone and the muxed
\* video is there, a step takes it away only when it ends with both runs
\* successful, and no step ever removes the frame images.
C22_SilentVideoDeletedOnlyAfterMux ==
    [][\A j \in Jobs :
          /\ (Len(ffmpeg_runs'[j]) = 2 /\ ~ffmpeg_runs'[j][2].ok) => VideoTemp \in files'[j]
          /\ (Len(ffmpeg_runs'[j]) = 1 /\ ffmpeg_runs'[j][1].wrote) => VideoTemp \in files'[j]
          /\ stage_result'[j][9] = "ok" =>
                 VideoTemp \notin files'[j] /\ VideoOutput \in files'[j]
          /\ (VideoTemp \in files[j] /\ VideoTemp \notin files'[j]) =>
                 (Len(ffmpeg_runs'[j]) = 2 /\ ffmpeg_runs'[j][2].ok)
          /\ StageFiles(8, "ok") \cap files[j] \subseteq files'[j]]_vars

\* Frames were rendered, the encode succeeded and the mux failed: the handler
\* has run and the silent video is on disk next to the frames.
C22_Witness ==
    \E j \in Jobs :
        /\ Len(ffmpeg_runs[j]) = 2
        /\ ~ffmpeg_runs[j][2].ok
        /\ raised[j] = 9
        /\ worker[j] = "returned"
        /\ VideoTemp \in files[j]
        /\ StageFiles(8, "ok") \subseteq files[j]

C23_SizesIgnoreRequestedDuration ==
    (previous_run.exists /\ previous_run.actual_duration = actual_duration) =>
        /\ num_concepts # NotComputed => num_concepts = previous_run.num_concepts
        /\ (previous_run.concept_answer = concept_answer
              /\ frames_per_concept # NotComputed) =>
               /\ frames_per_concept = previous_run.frames_per_concept
               /\ frame_count = previous_run.frame_count
        /\ crf # NotComputed => crf = previous_run.crf

\* Two complete runs over the same narration and the same answer to the
\* concept prompt, one asked for 60 seconds and the other for 120.
C23_Witness ==
    /\ previous_run.exists
    /\ previous_run.target_duration # target_duration
    /\ previous_run.concept_answer = concept_answer
    /\ concept_answer.outcome = "ok"
    /\ Len(concepts) > 0
    /\ crf # NotComputed

\* C26: the list handed to FrameRendering has exactly
\* get_num_concepts(duration) entries, and so at least 5 of them, whatever
\* text the service answered.
C26_ConceptListHasNumConceptsEntries ==
    concept_answer # NoAnswer =>
        /\ Len(concepts) = get_num_concepts(actual_duration)
        /\ Len(concepts) >= 5

\* C28: the CRF is 18 for a duration of at most 300 seconds, 20 above 300 and
\* up to 600, 22 above 600: one of the three values, and never lower for a
\* longer duration.
C28_CrfFollowsDurationTiers ==
    crf # NotComputed =>
        /\ crf \in {18, 20, 22}
        /\ actual_duration <= 300 => crf = 18
        /\ (actual_duration > 300 /\ actual_duration <= 600) => crf = 20
        /\ actual_duration > 600 => crf = 22
        /\ actual_duration > 0 => get_crf_quality(actual_duration - 1) <= crf

\* A narration longer than ten minutes has been compiled at the top tier.
C28_Witness ==
    /\ actual_duration > 600
    /\ crf = 22

\* C25: within one run every stage is invoked at most once. A stage that has
\* run keeps its outcome (it is never run again), the stages are begun in
\* order, and a run in which a mandatory stage failed ends failed.
C25_NoStageIsRetried ==
    [][\A j \in Jobs :
          /\ \A k \in Stages :
                 stage_result[j][k] # "none" => stage_result'[j][k] = stage_result[j][k]
          /\ step'[j] \in {step[j], step[j] + 1}
          /\ Finished(j)' =>
                 \A k \in Stages \ {BestEffortStage} :
                     stage_result'[j][k] = "error" => IsFailed(completed_videos'[j])]_vars

\* C27: the cumulative token counter grows by the usage of every successful
\* call to the service, made through generate or through generate_json, and
\* it never decreases.
C27_EverySuccessfulCallIsCounted ==
    [][/\ daily_token_count' >= daily_token_count
       /\ \A c \in Callers :
              (call_pc[c] = "calling" /\ call_pc'[c] = "idle"
                  /\ call_result'[c].outcome = "ok")
                 => daily_token_count' = daily_token_count + response_usage']_vars

\* C29: a start request that passes validation and creates the job record
\* also moves the record to processing and launches the job's worker, so no
\* created job is left pending with no worker.
C29_CreatedJobIsProcessingWithWorker ==
    [][\A j \in Jobs :
          (videos[j] = NoVideo /\ videos'[j] # NoVideo)
              => /\ videos'[j].status = "processing"
                 /\ worker'[j] = "running"]_vars

C31_FailedRowHasErrorText ==
    [][\A j \in Jobs :
          /\ (videos'[j].exists /\ videos'[j].status = "failed")
                 => videos'[j].error_message # None
          /\ (videos[j].exists /\ videos[j].status # "failed"
                  /\ videos'[j].status = "failed"
                  /\ pending_updates'[j] # pending_updates[j])
                 => /\ videos'[j].progress = 0
                    /\ videos'[j].error_message = ErrorText(raised[j])]_vars

\* The failed update of a run that raised in stage 9 has been applied to a
\* row that stood at a later progress, before any poll found the handoff
\* entry, and a poll has answered from the row.
C31_Witness ==
    \E j \in Jobs :
        /\ raised[j] = 9
        /\ videos[j].exists
        /\ videos[j].status = "failed"
        /\ videos[j].progress = 0
        /\ videos[j].error_message = ErrorText(9)
        /\ ~entry_polled[j]
        /\ status_response[j] = StatusBody(videos[j])

\* C32: jobs that run at the same time are isolated. A step of the worker of
\* one job (a stage, the handler, a queued row update, the closing of its
\* loop) leaves the persisted record, the handoff entry and the output
\* directory of every other job as they were.
C32_WorkersAreIsolated ==
    [][\A j \in Jobs :
          (\/ worker'[j] # worker[j]
           \/ step'[j] # step[j]
           \/ pending_updates'[j] # pending_updates[j])
              => \A i \in Jobs \ {j} :
                     /\ videos'[i] = videos[i]
                     /\ completed_videos'[i] = completed_videos[i]
                     /\ files'[i] = files[i]]_vars

\* One job has failed in stage 5 and its failed update has been applied,
\* the other has completed with all its files and its completed update
\* applied.
C32_Witness ==
    \E j \in Jobs : \E i \in Jobs \ {j} :
        /\ raised[j] = 5
        /\ videos[j].exists /\ videos[j].status = "failed"
        /\ IsFailed(completed_videos[j])
        /\ "narration.wav" \notin files[j]
        /\ videos[i].exists /\ videos[i].status = "completed"
        /\ IsCompleted(completed_videos[i])
        /\ {"narration.wav", VideoOutput, "metadata.json"} \subseteq files[i]

\* C33: a cancel request for a job whose record is completed or failed is
\* rejected with an error (400), a cancel request for an id without a record
\* is rejected as not found (404), and handling either one leaves every
\* record and every handoff entry as it was.
C33_CancelOfFinishedOrUnknownJobRejected ==
    [][\A j \in Jobs :
          cancel_response'[j] # cancel_response[j]
              => /\ videos[j] = NoVideo => cancel_response'[j] = HttpError(404)
                 /\ (videos[j].exists /\ videos[j].status \in TerminalStatus)
                        => cancel_response'[j] = HttpError(400)
                 /\ (videos[j] = NoVideo \/ videos[j].status \in TerminalStatus)
                        => /\ videos' = videos
                           /\ completed_videos' = completed_videos
                           /\ worker' = worker]_vars

\* A cancel request for a job whose record says completed has been answered
\* 400, and the record and the handoff entry are still those of the
\* completed run.
C33_Witness ==
    \E j \in Jobs :
        /\ cancel_response[j] = HttpError(400)
        /\ videos[j].exists
        /\ videos[j].status = "completed"
        /\ videos[j].output_path = OutputPath(j)
        /\ IsCompleted(completed_videos[j])

\* C34: once cleanup-pending has deleted the record of a job, no later step
\* (an update the worker queued, a poll that found the handoff entry and
\* saves the record it fetched) brings the record back, and every poll that
\* is answered from then on is answered 404.
C34_DeletedRecordStaysDeleted ==
    [][\A j \in cleanup.deleted :
          /\ videos'[j] = NoVideo
          /\ (poll_pc[j] # "idle" /\ poll_pc'[j] = "idle")
                 => status_response'[j] = HttpError(404)]_vars

\* The record was deleted under a running worker, the worker has stored its
\* completed handoff entry and all its updates have run, and a poll that
\* found the entry found no record to merge it into.
C34_Witness ==
    \E j \in cleanup.deleted :
        /\ videos[j] = NoVideo
        /\ IsCompleted(completed_videos[j])
        /\ pending_updates[j] = <<>>
        /\ worker[j] # "not_started"
        /\ IsCompleted(poll_completed[j])
        /\ poll_pc[j] = "fetch"

\* C35: when the concept request leaves an empty list of concepts, the run
\* never completes: step 8 raises, step 9 is not run and writes no video, no
\* completed handoff entry or completed record appears, and the run ends with
\* the failed handoff entry carrying the error text of step 8, which is also
\* the error text of the record once it says failed.
C35_EmptyConceptListFailsTheJob ==
    \A j \in Jobs :
        (concept_answer # NoAnswer /\ Len(concepts) = 0 /\ videos[j].exists)
            => /\ step[j] <= 8
               /\ ffmpeg_runs[j] = <<>>
               /\ VideoOutput \notin files[VideoDir(j)]
               /\ ~IsCompleted(completed_videos[j])
               /\ videos[j].status # "completed"
               /\ step[j] = 8 => raised[j] = 8
               /\ (step[j] = 8 /\ worker[j] \in {"returned", "closed"})
                      => /\ completed_videos[j] = FailedEntry(ErrorText(8))
                         /\ completed_videos[j].error # ""
               /\ videos[j].status = "failed"
                      => videos[j].error_message = ErrorText(8)

\* The concept request answered without a non-empty line, step 8 raised, and
\* the record says failed with the error text of step 8.
C35_Witness ==
    \E j \in Jobs :
        /\ concept_answer = [outcome |-> "ok", lines |-> 0]
        /\ concepts = <<>>
        /\ frames_per_concept = Raised
        /\ raised[j] = 8
        /\ IsFailed(completed_videos[j])
        /\ videos[j].exists
        /\ videos[j].status = "failed"
        /\ videos[j].error_message = ErrorText(8)

\* C36: get_gemini_client constructs at most one GeminiClient, and every
\* thread it has returned to holds that same instance, so that there is one
\* last_request_time and one request_count for all of them.
C36_OneClientForAllContexts ==
    /\ client_instances <= 1
    /\ \A c \in Contexts : \A d \in Contexts :
           (context_pc[c] = "done" /\ context_pc[d] = "done")
               => context_client[c] = context_client[d]

\* C37: request_count is the number of calls that have passed
\* _enforce_rate_limit, whatever became of them afterwards and however the
\* callers interleave, and last_request_time never decreases.
C37_CounterCountsPassedCalls ==
    [][/\ request_count' = Len(releases')
       /\ last_request_time' >= last_request_time]_vars
====
